---- MODULE Spec2Model ----
(***************************************************************************)
(* A model of napari-threedee's annotators.                                *)
(*                                                                         *)
(*   PointAnnotator  (annotators/points.py): an evented data model         *)
(*   (Points) kept in step with a napari points layer by two listeners,    *)
(*   a click handler that adds points, and the enable/disable contract of  *)
(*   N3dComponent (_backend/threedee_model.py).                            *)
(*                                                                         *)
(*   SphereAnnotator (annotators/spheres.py): the ADD/EDIT mode protocol,  *)
(*   the sphere_id bookkeeping and the enable/disable registrations.       *)
(*                                                                         *)
(* Arrays are records [rank, ncols, rows]: a rank-1 array of n numbers is  *)
(* one row of n numbers with rank 1; a rank-2 array of shape (r, c) is r   *)
(* rows with ncols = c.                                                    *)
(***************************************************************************)
EXTENDS Integers, Sequences, FiniteSets, TLC

VARIABLES
    dmData,        \* PointAnnotator.data_model.data
    dmListeners,   \* times update_layer_data_from_data_model is connected to data_model.events.data
    dmBlocked,     \* data_model.events is blocked
    layerData,     \* layer -> that points layer's data
    layerListener, \* layer -> update_data_model_from_layer_data is connected to its events.data
    layerBlocked,  \* layer -> block count of its events.data
    pointsLayer,   \* PointAnnotator._points_layer
    imageLayer,    \* PointAnnotator.image_layer is not None
    enabled,       \* PointAnnotator._enabled
    mouseCb,       \* PointAnnotator._mouse_callback is in viewer.mouse_drag_callbacks
    lastOp,        \* the operation that produced this state, with its inputs
    calls,         \* the listener invocations of the last operation: <<listener, invoked from>>
    raised,        \* the last operation ended in an exception
    clicked,       \* the points of the valid clicks so far, while nothing else has happened
    sLayer,        \* SphereAnnotator.points_layer is not None
    sPoints,       \* its rows: [pos, id, radius] = data row, sphere_id and radius features
    sSelected,     \* points_layer.selected_data (row numbers)
    sCurrent,      \* points_layer.current_properties: [id, radius]
    sMode,         \* SphereAnnotator._mode
    sImage,        \* SphereAnnotator.image_layer is not None
    sEnabled,      \* SphereAnnotator._enabled
    sMouseCb,      \* SphereAnnotator._mouse_callback is in viewer.mouse_drag_callbacks
    sListener,     \* _on_point_data_changed is connected to points_layer.events.data
    sKeys,         \* the viewer's key bindings made by the annotator: subset of {"r", "n"}
    sMesh,         \* metadata mesh_data: the sphere blocks, <<>> for None
    sSurface,      \* surface_layer: [exists, data]
    sLastOp,       \* the operation that produced this state, with its inputs
    sIssued,       \* the sphere ids the points of the layer have carried so far
    roundTrip,     \* outcome of the last N3dSpheres.from_layer(points_layer).as_layer()
    mapped,        \* the last call of mouse_event_to_plane_position_nd: inputs and outcome
    pair           \* two PointAnnotators side by side, with the data models they refer to

svars == <<sLayer, sPoints, sSelected, sCurrent, sMode, sImage, sEnabled, sMouseCb,
           sListener, sKeys, sMesh, sSurface, sLastOp, sIssued, roundTrip>>

pvars == <<dmData, dmListeners, dmBlocked, layerData, layerListener, layerBlocked,
           pointsLayer, imageLayer, enabled, mouseCb, lastOp, calls, raised,
           clicked>>

xvars == <<mapped, pair>>

vars == <<pvars, svars, xvars>>

----------------------------------------------------------------------------
(* Bounds *)

\* most rows a points array holds in the model
MaxRows == 2
\* most duplicate connections of one listener to the data model's signal
MaxListeners == 3
\* nesting depth at which a listener chain is cut (a chain that deep never returns)
MaxDepth == 3
\* most times a layer's data event is left blocked
MaxBlocked == 2

----------------------------------------------------------------------------
(* numpy arrays *)

NDim == 3

Arr(rank, ncols, rows) == [rank |-> rank, ncols |-> ncols, rows |-> rows]

\* np.asarray of a flat list of numbers
Flat(xs) == Arr(1, Len(xs), <<xs>>)

\* np.asarray of a list of rows, each of NDim numbers
Rows2d(rows) == Arr(2, NDim, rows)

\* ndarray.shape
Shape(a) == IF a.rank = 1 THEN <<a.ncols>> ELSE <<Len(a.rows), a.ncols>>

\* ndarray.size
Size(a) == IF a.rank = 1 THEN a.ncols ELSE Len(a.rows) * a.ncols

\* len(a)
NRows(a) == Shape(a)[1]

\* np.atleast_2d: a rank-1 array becomes one row
AtLeast2d(a) == IF a.rank = 1 THEN [a EXCEPT !.rank = 2] ELSE a

\* np.array_equal
ArrayEqual(a, b) == Shape(a) = Shape(b) /\ a.rows = b.rows

\* np.concatenate([a, b], axis=0) of two rank-2 arrays with the same number of columns
Concatenate(a, b) == Arr(2, b.ncols, a.rows \o b.rows)

\* Points.at_least_2d, the validator run when a Points model is constructed
at_least_2d(v) == AtLeast2d(v)

\* What a napari points layer stores when `layer.data = v` is assigned:
\* a value of length 0 becomes an empty (0, ndim) array, anything else is made rank 2.
FixDataPoints(v) == IF NRows(v) = 0 THEN Rows2d(<<>>) ELSE AtLeast2d(v)

\* the assignment `layer.data = v` is refused with a ValueError: v has points whose
\* number of coordinates is not the layer's ndim
WrongDimensions(v) == NRows(v) # 0 /\ AtLeast2d(v).ncols # NDim

----------------------------------------------------------------------------
(* The viewer's layers and the reference image *)

Layers == {"A", "B"}
NoLayer == "None"

\* image_layer.extent.data: the corners of the reference image's data
ExtentLo == <<0, 0, 0>>
ExtentHi == <<32, 32, 32>>

\* coordinates a click can map to: one inside the image, one on its border, two outside
P1 == <<14, 14, 14>>
P2 == <<0, 32, 7>>
Out1 == <<33, 14, 14>>
Out2 == <<14, -1, 14>>

\* The float64 values that are not finite, as numbers no finite coordinate of the
\* model comes near: nan, inf and -inf
NaN == 3000000
PosInf == 1000000
NegInf == -1000000

IsFinite(x) == x # NaN /\ x # PosInf /\ x # NegInf

\* point_in_bounding_box: every coordinate within the box, borders included; every
\* comparison with nan is false
point_in_bounding_box(point, lo, hi) ==
    \A i \in 1..Len(point) :
        point[i] # NaN /\ lo[i] <= point[i] /\ point[i] <= hi[i]

\* the mapping with the intersection's coordinates written in ascending slot order,
\* whatever the displayed order is
mouse_event_to_plane_position_nd_ascending(dimsPoint, displayed, intersection3d) ==
    [i \in 1..Len(dimsPoint) |->
        IF \E k \in 1..Len(displayed) : displayed[k] = i
        THEN intersection3d[Cardinality({k \in 1..Len(displayed) : displayed[k] <= i})]
        ELSE dimsPoint[i]]

\* mouse_event_to_plane_position_nd: the viewer's dims point with the displayed
\* slots overwritten by the 3-D intersection (displayed[k] is the slot of its k-th
\* coordinate)
mouse_event_to_plane_position_nd(dimsPoint, displayed, intersection3d) ==
    [i \in 1..Len(dimsPoint) |->
        IF \E k \in 1..Len(displayed) : displayed[k] = i
        THEN intersection3d[CHOOSE k \in 1..Len(displayed) : displayed[k] = i]
        ELSE dimsPoint[i]]

\* viewer.dims of the 3-D viewer the annotator works in
DimsPoint == <<0, 0, 0>>
DimsDisplayed == <<1, 2, 3>>

\* np.asarray(viewer.dims.displayed)[list(viewer.dims.displayed_order)]; dimensions
\* and positions are numbered from 1 here
displayed_dims(displayed, displayed_order) ==
    [k \in 1..Len(displayed_order) |-> displayed[displayed_order[k]]]

\* np.dot of two vectors of three finite numbers
Dot(a, b) == a[1] * b[1] + a[2] * b[2] + a[3] * b[3]

\* float64 division num / den of finite numbers: a zero divisor gives nan for 0 / 0
\* and an infinity with the sign of num otherwise (a warning, no exception); the
\* quotients the model forms are whole numbers
FDiv(num, den) ==
    IF den = 0 THEN (IF num = 0 THEN NaN ELSE IF num > 0 THEN PosInf ELSE NegInf)
    ELSE IF den > 0 THEN (IF num >= 0 THEN num \div den ELSE -((-num) \div den))
    ELSE (IF num >= 0 THEN -(num \div (-den)) ELSE (-num) \div (-den))

\* float64 product of a scale factor, finite or not, and a finite number
FMul(scale, x) ==
    IF scale = NaN THEN NaN
    ELSE IF scale = PosInf
         THEN (IF x = 0 THEN NaN ELSE IF x > 0 THEN PosInf ELSE NegInf)
    ELSE IF scale = NegInf
         THEN (IF x = 0 THEN NaN ELSE IF x > 0 THEN NegInf ELSE PosInf)
    ELSE scale * x

\* float64 sum of a finite number and a product, finite or not
FAdd(x, y) == IF IsFinite(y) THEN x + y ELSE y

\* plane.intersect_with_line (napari's intersect_line_with_plane_3d): the line's
\* position moved along its direction by
\* dot(plane_position - line_position, normal) / dot(line_direction, normal)
intersect_with_line(line_position, line_direction, plane_position, plane_normal) ==
    LET line_plane_direction == [i \in 1..3 |-> plane_position[i] - line_position[i]]
        scale_factor == FDiv(Dot(line_plane_direction, plane_normal),
                             Dot(line_direction, plane_normal))
    IN [i \in 1..3 |-> FAdd(line_position[i], FMul(scale_factor, line_direction[i]))]

\* image_layer.plane of the reference image
PlanePosition == <<14, 0, 0>>
PlaneNormal == <<1, 0, 0>>

\* the view ray of a click runs within the direction of the plane
Parallel(view_direction) == Dot(view_direction, PlaneNormal) = 0

\* mouse_event_to_plane_position_3d that answers a ray parallel to the plane with
\* the cursor position
mouse_event_to_plane_position_3d_cursor(position, view_direction, displayed, displayed_order) ==
    LET dims == displayed_dims(displayed, displayed_order)
        cursor_position_3d == [k \in 1..3 |-> position[dims[k]]]
        direction == [k \in 1..3 |-> view_direction[dims[k]]]
    IN IF Parallel(direction) THEN cursor_position_3d
       ELSE intersect_with_line(cursor_position_3d, direction,
                                PlanePosition, PlaneNormal)

\* mouse_event_to_plane_position_3d: the intersection of the click's ray, taken in
\* the displayed dimensions, with the plane of the image layer
mouse_event_to_plane_position_3d(position, view_direction, displayed, displayed_order) ==
    LET dims == displayed_dims(displayed, displayed_order)
        cursor_position_3d == [k \in 1..3 |-> position[dims[k]]]
        direction == [k \in 1..3 |-> view_direction[dims[k]]]
    IN intersect_with_line(cursor_position_3d, direction, PlanePosition, PlaneNormal)

\* a call of mouse_event_to_plane_position_nd in a viewer with the given dims; the
\* intersection is what mouse_event_to_plane_position_3d returned. np.asarray of the
\* tuple viewer.dims.point is a new array, so the write into it leaves the tuple
PlanePositionCall(point, displayed, displayed_order, intersection3d) ==
    [done |-> TRUE, point |-> point, displayed |-> displayed,
     order |-> displayed_order, hit |-> intersection3d,
     result |-> mouse_event_to_plane_position_nd(
                    point, displayed_dims(displayed, displayed_order), intersection3d),
     point_after |-> point]

\* no call has been made
NotMapped == [done |-> FALSE, point |-> <<>>, displayed |-> <<>>, order |-> <<>>,
              hit |-> <<>>, result |-> <<>>, point_after |-> <<>>]

\* Points(data=[]), the default data model: shape (1, 0)
EmptyPoints == at_least_2d(Flat(<<>>))

\* a napari points layer with no points: shape (0, NDim)
EmptyLayerData == Rows2d(<<>>)

\* The Points instances two annotators can refer to: the one instance made when
\* `data_model: Points = Points(data=[])` in the signature of __init__ is evaluated,
\* and one instance per annotator made by a caller that passes data_model
PairModels == {"default", "own1", "own2"}
OwnModel(i) == IF i = 1 THEN "own1" ELSE "own2"

\* no annotator of the pair has been constructed
PairBlank ==
    [made |-> FALSE,
     ref |-> <<"default", "default">>,
     data |-> [m \in PairModels |-> EmptyPoints],
     conns |-> [m \in PairModels |-> <<>>],
     pl |-> <<FALSE, FALSE>>,
     layer |-> <<EmptyLayerData, EmptyLayerData>>,
     blocked |-> <<0, 0>>,
     lis |-> <<FALSE, FALSE>>,
     cb |-> <<FALSE, FALSE>>,
     en |-> <<FALSE, FALSE>>,
     op |-> [name |-> "none", who |-> 0],
     raised |-> FALSE]

OthersIdle == mapped = NotMapped /\ pair = PairBlank

----------------------------------------------------------------------------
(* PointAnnotator: the state the operations work on, as one record *)

PState == [dm |-> dmData, dmL |-> dmListeners, dmB |-> dmBlocked,
           ld |-> layerData, ll |-> layerListener, lb |-> layerBlocked,
           pl |-> pointsLayer, img |-> imageLayer, en |-> enabled, cb |-> mouseCb,
           calls |-> <<>>, ctx |-> "external", depth |-> 0, raised |-> FALSE]

Raise(s) == [s EXCEPT !.raised = TRUE]

\* a listener is entered: logged with the listener (or external write) it runs under
Enter(s, name) ==
    [s EXCEPT !.calls = Append(@, <<name, s.ctx>>), !.ctx = name, !.depth = @ + 1]

Leave(s, s0) == [s EXCEPT !.ctx = s0.ctx, !.depth = s0.depth]

RECURSIVE SetDataModelData(_, _)
RECURSIVE SetLayerData(_, _, _)
RECURSIVE update_layer_data_from_data_model(_)
RECURSIVE update_data_model_from_layer_data(_)
RECURSIVE EmitDataModel(_, _)

\* data_model.events.data.emit: every connection of update_layer_data_from_data_model
\* runs, in order, until one raises
EmitDataModel(s, n) ==
    IF n = 0 \/ s.raised THEN s
    ELSE EmitDataModel(update_layer_data_from_data_model(s), n - 1)

\* `data_model.data = v` on the evented Points model: the value is stored as given
\* (the validator runs at construction only) and the signal is emitted when the
\* events are not blocked and the value differs from the old one
SetDataModelData(s, v) ==
    LET s1 == [s EXCEPT !.dm = v]
    IN IF s.raised THEN s
       ELSE IF s.dmB \/ ArrayEqual(s.dm, v) THEN s1
       ELSE EmitDataModel(s1, s1.dmL)

\* `layer.data = v` on a napari points layer: the data is stored and, unless the
\* data event is blocked, the event reaches the connected listener
SetLayerData(s, L, v) ==
    LET s1 == [s EXCEPT !.ld[L] = FixDataPoints(v)]
    IN IF s.raised THEN s
       ELSE IF WrongDimensions(v) THEN Raise(s)
       ELSE IF s1.lb[L] = 0 /\ s1.ll[L] THEN update_data_model_from_layer_data(s1)
       ELSE s1

\* update_layer_data_from_data_model without the block()/unblock() around the write
update_layer_data_unblocked(s0) ==
    IF s0.depth >= MaxDepth THEN Raise(s0)
    ELSE LET s1 == Enter(s0, "update_layer_data_from_data_model")
             L == s1.pl
         IN IF L = NoLayer THEN Leave(s1, s0)
            ELSE Leave(SetLayerData(s1, L, s1.dm), s0)

\* PointAnnotator.update_layer_data_from_data_model
update_layer_data_from_data_model(s0) ==
    IF s0.depth >= MaxDepth THEN Raise(s0)
    ELSE LET s1 == Enter(s0, "update_layer_data_from_data_model")
             L == s1.pl
         IN IF L = NoLayer THEN Leave(s1, s0)
            ELSE LET s2 == [s1 EXCEPT !.lb[L] = @ + 1]
                     s3 == SetLayerData(s2, L, s2.dm)
                     s4 == IF s3.raised THEN s3
                           ELSE [s3 EXCEPT !.lb[L] = IF @ > 0 THEN @ - 1 ELSE 0]
                 IN Leave(s4, s0)

\* PointAnnotator.update_data_model_from_layer_data
update_data_model_from_layer_data(s0) ==
    IF s0.depth >= MaxDepth THEN Raise(s0)
    ELSE LET s1 == Enter(s0, "update_data_model_from_layer_data")
             s2 == [s1 EXCEPT !.dmB = TRUE]
             s3 == IF s2.pl = NoLayer THEN Raise(s2)
                   ELSE SetDataModelData(s2, s2.ld[s2.pl])
             s4 == [s3 EXCEPT !.dmB = s1.dmB]
         IN Leave(s4, s0)

\* add_mouse_callback_safe / remove_mouse_callback_safe on viewer.mouse_drag_callbacks
add_mouse_callback_safe(s) == [s EXCEPT !.cb = TRUE]
remove_mouse_callback_safe(s) == [s EXCEPT !.cb = FALSE]

\* PointAnnotator._on_enable
_on_enable(s) ==
    LET s1 == add_mouse_callback_safe(s)
    IN IF s1.pl = NoLayer THEN Raise(s1)
       ELSE [s1 EXCEPT !.ll[s1.pl] = TRUE, !.dmL = @ + 1]

\* PointAnnotator._on_disable
_on_disable(s) ==
    LET s1 == remove_mouse_callback_safe(s)
    IN IF s1.pl = NoLayer THEN s1
       ELSE [s1 EXCEPT !.ll[s1.pl] = FALSE, !.dmL = IF @ > 0 THEN @ - 1 ELSE 0]

\* N3dComponent.enabled setter
SetEnabled(s, value) ==
    LET s1 == IF value THEN _on_enable(s) ELSE _on_disable(s)
    IN IF s1.raised THEN s1 ELSE [s1 EXCEPT !.en = value]

\* the points_layer setter that gives the annotator back the enabled flag it had
SetPointsLayer_keeps_flag(s, value) ==
    IF value = NoLayer THEN [s EXCEPT !.pl = NoLayer]
    ELSE LET s1 == SetEnabled(s, FALSE)
             s2 == [s1 EXCEPT !.pl = value]
         IN SetEnabled(s2, s.en)

\* PointAnnotator.points_layer setter
SetPointsLayer(s, value) ==
    IF value = NoLayer THEN [s EXCEPT !.pl = NoLayer]
    ELSE LET s1 == SetEnabled(s, FALSE)
             s2 == [s1 EXCEPT !.pl = value]
         IN SetEnabled(s2, TRUE)

\* PointAnnotator.set_layers
set_layers(s, image, points) == SetPointsLayer([s EXCEPT !.img = image], points)

\* _mouse_callback that puts the new point before the layer's points
_mouse_callback_prepends(s, ev) ==
    IF (~s.img) \/ s.pl = NoLayer THEN s
    ELSE IF ~ev.alt THEN s
    ELSE LET new_point_nd ==
                 mouse_event_to_plane_position_nd(DimsPoint, DimsDisplayed, ev.hit)
         IN IF ~point_in_bounding_box(new_point_nd, ExtentLo, ExtentHi) THEN s
            ELSE SetDataModelData(
                     s, Concatenate(AtLeast2d(Flat(new_point_nd)), s.ld[s.pl]))

\* _mouse_callback without the bounding-box test
_mouse_callback_no_bbox(s, ev) ==
    IF (~s.img) \/ s.pl = NoLayer THEN s
    ELSE IF ~ev.alt THEN s
    ELSE LET new_point_nd ==
                 mouse_event_to_plane_position_nd(DimsPoint, DimsDisplayed, ev.hit)
         IN SetDataModelData(
                s, Concatenate(s.ld[s.pl], AtLeast2d(Flat(new_point_nd))))

\* _mouse_callback without the Alt test
_mouse_callback_no_alt(s, ev) ==
    IF (~s.img) \/ s.pl = NoLayer THEN s
    ELSE LET new_point_nd ==
                 mouse_event_to_plane_position_nd(DimsPoint, DimsDisplayed, ev.hit)
         IN IF ~point_in_bounding_box(new_point_nd, ExtentLo, ExtentHi) THEN s
            ELSE SetDataModelData(
                     s, Concatenate(s.ld[s.pl], AtLeast2d(Flat(new_point_nd))))

\* PointAnnotator._mouse_callback; ev = [alt, hit]: the Alt modifier and the 3-D
\* intersection of the click's ray with the image plane
_mouse_callback(s, ev) ==
    IF (~s.img) \/ s.pl = NoLayer THEN s
    ELSE IF ~ev.alt THEN s
    ELSE LET new_point_nd ==
                 mouse_event_to_plane_position_nd(DimsPoint, DimsDisplayed, ev.hit)
         IN IF ~point_in_bounding_box(new_point_nd, ExtentLo, ExtentHi) THEN s
            ELSE SetDataModelData(
                     s, Concatenate(s.ld[s.pl], AtLeast2d(Flat(new_point_nd))))

----------------------------------------------------------------------------
(* PointAnnotator: construction *)

\* the annotator before __init__ has assigned anything
Blank(dm0, image) ==
    [dm |-> dm0, dmL |-> 0, dmB |-> FALSE,
     ld |-> [L \in Layers |-> EmptyLayerData],
     ll |-> [L \in Layers |-> FALSE], lb |-> [L \in Layers |-> 0],
     pl |-> NoLayer, img |-> image, en |-> FALSE, cb |-> FALSE,
     calls |-> <<>>, ctx |-> "external", depth |-> 0, raised |-> FALSE]

\* PointAnnotator.__init__; with an image layer and no points layer it creates the
\* points layer itself (layer "A")
Construct(dm0, image, points, en) ==
    LET s1 == SetPointsLayer(Blank(dm0, image), points)
        s2 == IF points = NoLayer /\ image THEN SetPointsLayer(s1, "A") ELSE s1
    IN IF s2.raised THEN s2 ELSE SetEnabled(s2, en)

\* the arrays of 0..n rows over a set of points
RowArrays(points, n) == {Rows2d(r) : r \in UNION {[1..k -> points] : k \in 0..n}}

\* one point with a coordinate too few for the layers of the viewer
PlanarPoint == Arr(2, NDim - 1, <<<<14, 14>>>>)

\* values assigned to data_model.data from outside: a flat coordinate or rows
ModelWrites == {Flat(P1)} \cup RowArrays({P1}, MaxRows)

\* values assigned to a layer's data from outside (points added or deleted in the UI)
LayerWrites == RowArrays({P1}, MaxRows)

\* data models an annotator is constructed with: the default, or one flat coordinate
InitialModels == {EmptyPoints, at_least_2d(Flat(P1))}

\* most clicks of a run that consists of clicks only
MaxClicks == 4

----------------------------------------------------------------------------
(* SphereAnnotator *)

\* most points the sphere annotator's layer holds in the model
MaxSpheres == 2
\* largest sphere_id handed out in the model
MaxId == 3

\* vertices of one create_sphere(rows=20, cols=20) mesh: (rows + 1) * (cols + 1)
SphereVertexCount == 441

Max(S) == CHOOSE x \in S : \A y \in S : y <= x

Ids(pts) == {pts[i].id : i \in 1..Len(pts)}

\* the rows of pts whose number is not in drop, in order
RECURSIVE Keep(_, _, _)
Keep(pts, drop, i) ==
    IF i > Len(pts) THEN <<>>
    ELSE (IF i \in drop THEN <<>> ELSE <<pts[i]>>) \o Keep(pts, drop, i + 1)

\* ascending order of a set of numbers (pandas groupby sorts its keys)
RECURSIVE Sorted(_)
Sorted(S) ==
    IF S = {} THEN <<>>
    ELSE LET m == CHOOSE x \in S : \A y \in S : x <= y
         IN <<m>> \o Sorted(S \ {m})

SState == [pl |-> sLayer, pts |-> sPoints, sel |-> sSelected, cur |-> sCurrent,
           mode |-> sMode, img |-> sImage, en |-> sEnabled, cb |-> sMouseCb,
           lis |-> sListener, keys |-> sKeys, mesh |-> sMesh, surf |-> sSurface,
           rt |-> roundTrip, placed |-> FALSE, raised |-> FALSE, hit |-> FALSE]

\* SphereAnnotator._create_surface_layer: a surface with one placeholder vertex
NewSurface == [exists |-> TRUE, data |-> <<>>]

\* SphereAnnotator._draw_spheres
_draw_spheres(s) ==
    LET s1 == IF s.surf.exists THEN s ELSE [s EXCEPT !.surf = NewSurface]
    IN [s1 EXCEPT !.surf.data = s1.mesh]

\* create_sphere(radius, rows=20, cols=20): a latitude mesh; its vertices are
\* numbered from 0 and its faces use every vertex number up to the last
create_sphere(radius) ==
    [radius |-> radius, n_vertices |-> SphereVertexCount,
     faces |-> [lo |-> 0, hi |-> SphereVertexCount - 1]]

\* the loop of _update_spheres with the running offset never advanced
RECURSIVE MeshBlocks_offset_kept(_, _, _)
MeshBlocks_offset_kept(pts, ids, face_index_offset) ==
    IF ids = <<>> THEN <<>>
    ELSE LET point_index == CHOOSE i \in 1..Len(pts) :
                                /\ pts[i].id = Head(ids)
                                /\ \A j \in 1..(i - 1) : pts[j].id # Head(ids)
             mesh_data == create_sphere(pts[point_index].radius)
         IN <<[position |-> pts[point_index].pos,
               radius |-> mesh_data.radius,
               n_vertices |-> mesh_data.n_vertices,
               faces |-> [lo |-> mesh_data.faces.lo + face_index_offset,
                          hi |-> mesh_data.faces.hi + face_index_offset],
               face_index_offset |-> face_index_offset]>>
            \o MeshBlocks_offset_kept(pts, Tail(ids), face_index_offset)

\* the loop of _update_spheres: per sphere_id group, in key order, the first row of
\* the group gives position and radius; the faces of the group's sphere are offset
\* by the number of vertices appended before
RECURSIVE MeshBlocks(_, _, _)
MeshBlocks(pts, ids, face_index_offset) ==
    IF ids = <<>> THEN <<>>
    ELSE LET point_index == CHOOSE i \in 1..Len(pts) :
                                /\ pts[i].id = Head(ids)
                                /\ \A j \in 1..(i - 1) : pts[j].id # Head(ids)
             mesh_data == create_sphere(pts[point_index].radius)
         IN <<[position |-> pts[point_index].pos,
               radius |-> mesh_data.radius,
               n_vertices |-> mesh_data.n_vertices,
               faces |-> [lo |-> mesh_data.faces.lo + face_index_offset,
                          hi |-> mesh_data.faces.hi + face_index_offset],
               face_index_offset |-> face_index_offset]>>
            \o MeshBlocks(pts, Tail(ids), face_index_offset + mesh_data.n_vertices)

\* vertices of the blocks before block i
RECURSIVE VerticesBefore(_, _)
VerticesBefore(blocks, i) ==
    IF i <= 1 THEN 0
    ELSE VerticesBefore(blocks, i - 1) + blocks[i - 1].n_vertices

\* np.concatenate of the vertex blocks and of the face blocks: block i's vertices
\* start in the global buffer after the vertices of the blocks before it
ConcatenateBlocks(blocks) ==
    [i \in 1..Len(blocks) |->
        [position |-> blocks[i].position, radius |-> blocks[i].radius,
         first_vertex |-> VerticesBefore(blocks, i),
         n_vertices |-> blocks[i].n_vertices,
         faces |-> blocks[i].faces]]

\* the mesh _update_spheres derives from the rows pts
MeshOf(pts) == ConcatenateBlocks(MeshBlocks(pts, Sorted(Ids(pts)), 0))

\* SphereAnnotator._update_spheres
_update_spheres(s) ==
    LET blocks == MeshBlocks(s.pts, Sorted(Ids(s.pts)), 0)
    IN IF Len(blocks) > 0
       THEN _draw_spheres([s EXCEPT !.mesh = ConcatenateBlocks(blocks)])
       ELSE [s EXCEPT !.mesh = <<>>]

\* SphereAnnotator._on_point_data_changed, reached through points_layer.events.data
EmitPointData(s) == IF s.lis THEN _update_spheres(s) ELSE s

\* `points_layer.current_properties = {sphere_id: [id], radius: [radius]}`: napari
\* also gives the new values to the selected points
SetCurrentProperties(s, id, radius) ==
    [s EXCEPT !.cur = [id |-> id, radius |-> radius],
              !.pts = [i \in 1..Len(s.pts) |->
                          IF i \in s.sel
                          THEN [s.pts[i] EXCEPT !.id = id, !.radius = radius]
                          ELSE s.pts[i]]]

\* SphereAnnotator._update_current_properties; an argument is <<>> for None, <<x>> for x
_update_current_properties(s, sphere_id, radius) ==
    IF ~s.pl THEN s
    ELSE SetCurrentProperties(
             s,
             IF sphere_id = <<>> THEN s.cur.id ELSE sphere_id[1],
             IF radius = <<>> THEN s.cur.radius ELSE radius[1])

\* `points_layer.selected_data = sel`: with a selection whose points agree on every
\* feature, napari makes those values the current ones
SetSelectedData(s, sel) ==
    LET s1 == [s EXCEPT !.sel = sel]
        ids == {s.pts[i].id : i \in sel}
        radii == {s.pts[i].radius : i \in sel}
    IN IF sel = {} THEN s1
       ELSE IF Cardinality(ids) = 1 /\ Cardinality(radii) = 1
       THEN [s1 EXCEPT !.cur = [id |-> CHOOSE x \in ids : TRUE,
                                radius |-> CHOOSE x \in radii : TRUE]]
       ELSE s1

\* points_layer.remove_selected()
RemoveSelected(s) ==
    IF s.sel = {} THEN s
    ELSE EmitPointData([s EXCEPT !.pts = Keep(s.pts, s.sel, 1), !.sel = {}])

\* points_layer.add(coord): the new row takes the current properties and becomes
\* the selection
AddPoint(s, coord) ==
    LET row == [pos |-> coord, id |-> s.cur.id, radius |-> s.cur.radius]
        s1 == [s EXCEPT !.pts = Append(@, row), !.sel = {Len(s.pts) + 1},
                        !.placed = TRUE]
    IN EmitPointData(s1)

\* add_point_on_plane: the click mapped onto the plane is added to the points layer
\* when it lies in the plane layer's bounding box, after removing the selection when
\* replace_selected is set
add_point_on_plane(s, ev, replace_selected) ==
    IF ~ev.alt THEN s
    ELSE LET intersection_nd ==
                 mouse_event_to_plane_position_nd(DimsPoint, DimsDisplayed, ev.hit)
         IN IF ~point_in_bounding_box(intersection_nd, ExtentLo, ExtentHi) THEN s
            ELSE AddPoint(IF replace_selected THEN RemoveSelected(s) ELSE s,
                          intersection_nd)

Min(S) == CHOOSE x \in S : \A y \in S : x <= y

\* a value or None, and whether computing it raised
Returned(v) == [raised |-> FALSE, val |-> v]
Raises == [raised |-> TRUE, val |-> <<>>]

\* SphereAnnotator.active_sphere_id; <<>> is None. `selected_data != {}` compares a
\* set with an empty dict, which holds for every selection, so the first element of
\* the selection is taken: the 0-based row index of the lowest selected row, and an
\* IndexError for the empty selection
active_sphere_id(s) ==
    IF ~s.pl THEN Returned(<<>>)
    ELSE IF s.sel = {} THEN Raises
    ELSE Returned(<<Min(s.sel) - 1>>)

\* SphereAnnotator._active_sphere_index: the 0-based index of the first row whose
\* sphere_id equals active_sphere_id, an IndexError when there is none
_active_sphere_index(s) ==
    LET id == active_sphere_id(s)
        rows == {i \in 1..Len(s.pts) : s.pts[i].id = id.val[1]}
    IN IF id.raised THEN Raises
       ELSE IF id.val = <<>> THEN Returned(<<>>)
       ELSE IF rows = {} THEN Raises
       ELSE Returned(<<Min(rows) - 1>>)

\* SphereAnnotator._update_active_sphere_radius
_update_active_sphere_radius(s, radius) ==
    LET idx == _active_sphere_index(s)
    IN IF idx.raised THEN [s EXCEPT !.raised = TRUE]
       ELSE [s EXCEPT !.pts[idx.val[1] + 1].radius = radius]

\* SphereAnnotator._set_radius_from_mouse_event; `visible` is image_layer.visible and
\* `radius` the distance of the cursor's plane intersection from the active center
_set_radius_from_mouse_event(s, visible, radius) ==
    IF (~s.img) \/ (~s.pl) THEN s
    ELSE IF ~visible THEN s
    ELSE IF _active_sphere_index(s).raised THEN [s EXCEPT !.raised = TRUE]
    ELSE IF s.sel = {} THEN s
    ELSE LET s1 == _update_active_sphere_radius(s, radius)
             s2 == _update_current_properties(s1, <<>>, <<radius>>)
         IN _update_spheres(s2)

\* SphereAnnotator.mode setter
SetMode(s, value) ==
    LET s1 == [s EXCEPT !.mode = value]
    IN IF value = "ADD"
       THEN LET sphere_ids == IF ~s1.pl THEN {} ELSE Ids(s1.pts)
                s2 == IF ~s1.pl THEN s1 ELSE SetSelectedData(s1, {})
                new_sphere_id == IF sphere_ids = {} THEN 1 ELSE Max(sphere_ids) + 1
            IN _update_current_properties(s2, <<new_sphere_id>>, <<>>)
       ELSE s1

\* SphereAnnotator._enable_add_mode
_enable_add_mode(s) == SetMode(s, "ADD")

\* SphereAnnotator._mouse_callback
Sphere_mouse_callback(s, ev) ==
    IF (~s.img) \/ (~s.pl) THEN s
    ELSE IF ~ev.alt THEN s
    ELSE LET replace_selected == (s.mode = "EDIT")
         IN SetMode(add_point_on_plane(s, ev, replace_selected), "EDIT")

\* SphereAnnotator._on_enable
Sphere_on_enable(s) ==
    IF s.pl
    THEN [s EXCEPT !.cb = TRUE, !.lis = TRUE, !.keys = @ \cup {"r", "n"}]
    ELSE s

\* SphereAnnotator._on_disable
Sphere_on_disable(s) ==
    [s EXCEPT !.cb = FALSE, !.lis = IF s.pl THEN FALSE ELSE @, !.keys = {}]

\* the enabled setter of the component base class, on the sphere annotator
SphereSetEnabled(s, value) ==
    [(IF value THEN Sphere_on_enable(s) ELSE Sphere_on_disable(s)) EXCEPT !.en = value]

\* SphereAnnotator._create_points_layer: an N3dSpheres layer made with one point
\* (sphere_id 0, radius 0) that is selected and removed again
_create_points_layer(s) ==
    [s EXCEPT !.pl = TRUE, !.pts = <<>>, !.sel = {}, !.cur = [id |-> 0, radius |-> 0],
              !.lis = FALSE, !.mesh = <<>>]

\* SphereAnnotator.set_layers
Sphere_set_layers(s, image) ==
    LET s1 == [s EXCEPT !.img = image]
    IN IF (~s1.pl) /\ s1.img
       THEN [_create_points_layer(s1) EXCEPT !.surf = NewSurface]
       ELSE s1

\* no conversion of the points layer to an N3dSpheres model has been made
NotConverted == [done |-> FALSE, raised |-> FALSE, rows |-> <<>>]

\* the distance between neighbouring float32 values at the magnitude a: 1 below
\* 2^24, doubling with every further bit
RECURSIVE Float32Spacing(_, _)
Float32Spacing(a, s) ==
    IF a \div s < 16777216 THEN s ELSE Float32Spacing(a, 2 * s)

\* np.asarray(value, dtype=np.float32) on the whole numbers of the model: a number
\* of more than 24 bits is rounded to the nearest multiple of the spacing of float32
\* at its magnitude, a tie going to the even multiple
Float32(x) ==
    LET a == IF x < 0 THEN -x ELSE x
        s == Float32Spacing(a, 1)
        q == a \div s
        rest == a % s
        r == IF 2 * rest < s THEN q * s
             ELSE IF 2 * rest > s THEN (q + 1) * s
             ELSE IF q % 2 = 0 THEN q * s
             ELSE (q + 1) * s
    IN IF x < 0 THEN -r ELSE r

\* N3dSpheres(centers=..., radii=...): both fields pass ensure_float32_ndarray
N3dSpheresModel(centers, radii) ==
    [centers |-> [i \in 1..Len(centers) |->
                     [j \in 1..Len(centers[i]) |-> Float32(centers[i][j])]],
     radii |-> [i \in 1..Len(radii) |-> Float32(radii[i])]]

\* N3dSpheres.from_layer: the model is built and dropped, the method has no return
\* statement; <<>> is None, <<m>> the model m
from_layer(rows) ==
    LET centers == [i \in 1..Len(rows) |-> rows[i].pos]
        radii == [i \in 1..Len(rows) |-> rows[i].radius]
        built == N3dSpheresModel(centers, radii)
    IN <<>>

\* N3dSpheres.as_layer, called on what from_layer returned: the sphere ids of the new
\* layer are np.arange(len(centers)); on None the call is an AttributeError
as_layer(model) ==
    IF model = <<>> THEN [done |-> TRUE, raised |-> TRUE, rows |-> <<>>]
    ELSE [done |-> TRUE, raised |-> FALSE,
          rows |-> [i \in 1..Len(model[1].centers) |->
                       [pos |-> model[1].centers[i], id |-> i - 1,
                        radius |-> model[1].radii[i]]]]

\* the sphere annotator before __init__ has assigned anything; `rows` are the rows
\* of the points layer it is given, if any
SphereBlank(rows) ==
    [pl |-> FALSE, pts |-> rows, sel |-> {},
     cur |-> IF rows = <<>> THEN [id |-> 0, radius |-> 0]
             ELSE [id |-> rows[Len(rows)].id, radius |-> rows[Len(rows)].radius],
     mode |-> "ADD", img |-> FALSE, en |-> FALSE, cb |-> FALSE, lis |-> FALSE,
     keys |-> {}, mesh |-> <<>>, surf |-> [exists |-> FALSE, data |-> <<>>],
     rt |-> NotConverted, placed |-> FALSE, raised |-> FALSE, hit |-> FALSE]

\* SphereAnnotator.__init__
SphereConstruct(image, points, rows, en) ==
    LET s0 == [SphereBlank(rows) EXCEPT !.img = image, !.pl = points]
        s1 == IF s0.pl THEN _update_spheres(s0) ELSE s0
        s2 == SphereSetEnabled(s1, en)
        s3 == SetMode(s2, "ADD")
    IN IF image THEN Sphere_set_layers(s3, image) ELSE s3

Op(name) == [op |-> name, alt |-> FALSE, hit |-> <<0, 0, 0>>, layer |-> NoLayer,
             from |-> NoLayer, flag |-> FALSE]

\* the clicks so far are the whole history: the annotator was constructed enabled,
\* with an image, an empty data model and an empty bound layer
ClicksOnly(s) ==
    s.en /\ s.img /\ s.pl # NoLayer /\ Size(s.dm) = 0 /\ Size(s.ld[s.pl]) = 0

NoClicks == [ok |-> FALSE, pts |-> <<>>]

Commit(s, op, ck) ==
    /\ dmData' = s.dm
    /\ dmListeners' = s.dmL
    /\ dmBlocked' = s.dmB
    /\ layerData' = s.ld
    /\ layerListener' = s.ll
    /\ layerBlocked' = s.lb
    /\ pointsLayer' = s.pl
    /\ imageLayer' = s.img
    /\ enabled' = s.en
    /\ mouseCb' = s.cb
    /\ calls' = s.calls
    /\ raised' = s.raised
    /\ lastOp' = op
    /\ clicked' = ck
    /\ UNCHANGED <<svars, xvars>>

\* the sphere annotator's variables hold the record s
SphereIs(s, op) ==
    /\ sLayer = s.pl
    /\ sPoints = s.pts
    /\ sSelected = s.sel
    /\ sCurrent = s.cur
    /\ sMode = s.mode
    /\ sImage = s.img
    /\ sEnabled = s.en
    /\ sMouseCb = s.cb
    /\ sListener = s.lis
    /\ sKeys = s.keys
    /\ sMesh = s.mesh
    /\ sSurface = s.surf
    /\ sLastOp = op
    /\ sIssued = Ids(s.pts)
    /\ roundTrip = s.rt

SOp(name) == [op |-> name, mode |-> "", flag |-> FALSE, placed |-> FALSE,
              raised |-> FALSE, radius |-> 0]

\* a sphere annotator constructed without layers, left alone
SphereIdle == SphereIs(SphereConstruct(FALSE, FALSE, <<>>, FALSE), SOp("init"))

Init ==
    \E dm0 \in InitialModels, image \in BOOLEAN, points \in {NoLayer, "A"},
       en \in BOOLEAN :
        LET s == Construct(dm0, image, points, en)
        IN /\ ~s.raised
           /\ dmData = s.dm
           /\ dmListeners = s.dmL
           /\ dmBlocked = s.dmB
           /\ layerData = s.ld
           /\ layerListener = s.ll
           /\ layerBlocked = s.lb
           /\ pointsLayer = s.pl
           /\ imageLayer = s.img
           /\ enabled = s.en
           /\ mouseCb = s.cb
           /\ calls = <<>>
           /\ raised = FALSE
           /\ lastOp = Op("init")
           /\ clicked = NoClicks
           /\ SphereIdle
           /\ OthersIdle

----------------------------------------------------------------------------
(* PointAnnotator: the operations *)

\* data_model.data = v, from outside
WriteDataModel ==
    \E v \in ModelWrites :
        Commit(SetDataModelData(PState, v), Op("write_model"), NoClicks)

\* layer.data = v, from outside, on any layer of the viewer
WriteLayer ==
    \E L \in Layers, v \in LayerWrites :
        Commit(SetLayerData(PState, L, v), [Op("write_layer") EXCEPT !.layer = L],
               NoClicks)

\* a click reaches _mouse_callback: Alt held or not, its ray meeting the image
\* plane at one of `hits`, while the bound layer holds fewer than `most` rows
ClickAt(hits, most) ==
    \E alt \in BOOLEAN, hit \in hits :
        LET ev == [alt |-> alt, hit |-> hit]
            s == _mouse_callback(PState, ev)
            valid == /\ imageLayer /\ pointsLayer # NoLayer /\ alt
                     /\ point_in_bounding_box(hit, ExtentLo, ExtentHi)
        IN /\ pointsLayer # NoLayer => Len(layerData[pointsLayer].rows) < most
           /\ Commit(s, [Op("click") EXCEPT !.alt = alt, !.hit = hit],
                     IF clicked.ok /\ valid
                     THEN [clicked EXCEPT !.pts = Append(@, hit)]
                     ELSE IF clicked.ok THEN clicked ELSE NoClicks)

Click == ClickAt({P1, Out1}, MaxRows)

\* event.position and event.view_direction of the clicks followed from the ray
RayPositions == {<<0, 14, 14>>, <<14, 14, 14>>, <<20, 7, 7>>, <<0, 40, 0>>}
RayDirections == {<<1, 0, 0>>, <<-1, 0, 0>>, <<0, 1, 0>>, <<0, 1, -1>>, <<1, 1, 0>>}

\* viewer.dims.displayed_order of the 3-D viewer
DimsDisplayedOrder == <<1, 2, 3>>

\* a click reaches _mouse_callback with a cursor position and a view direction;
\* the callback maps it to the plane itself. flag: the ray is parallel to the plane
ClickAlongRay ==
    \E alt \in BOOLEAN, position \in RayPositions, view_direction \in RayDirections :
        LET hit == mouse_event_to_plane_position_3d(
                       position, view_direction, DimsDisplayed, DimsDisplayedOrder)
            s == _mouse_callback(PState, [alt |-> alt, hit |-> hit])
        IN /\ pointsLayer # NoLayer => Len(layerData[pointsLayer].rows) < MaxRows
           /\ Commit(s, [Op("click") EXCEPT !.alt = alt, !.hit = hit,
                                            !.flag = Parallel(view_direction)],
                     NoClicks)

NextRays == ClickAlongRay \/ WriteDataModel

SpecRays == Init /\ [][NextRays]_vars

\* annotator.enabled = value
Enable ==
    \E value \in BOOLEAN :
        /\ dmListeners < MaxListeners
        /\ Commit(SetEnabled(PState, value), [Op("set_enabled") EXCEPT !.flag = value],
                  NoClicks)

\* annotator.points_layer = value
Rebind ==
    \E value \in Layers \cup {NoLayer} :
        /\ dmListeners < MaxListeners
        /\ Commit(SetPointsLayer(PState, value),
                  [Op("set_points_layer") EXCEPT !.layer = value, !.from = pointsLayer,
                                                 !.flag = enabled],
                  NoClicks)

\* annotator.set_layers(image_layer, points_layer)
SetLayers ==
    \E image \in BOOLEAN, value \in Layers \cup {NoLayer} :
        /\ dmListeners < MaxListeners
        /\ Commit(set_layers(PState, image, value),
                  [Op("set_layers") EXCEPT !.layer = value, !.from = pointsLayer,
                                           !.flag = image],
                  NoClicks)

Next == WriteDataModel \/ WriteLayer \/ Click \/ Enable \/ Rebind \/ SetLayers

Spec == Init /\ [][Next]_vars

----------------------------------------------------------------------------
(* PointAnnotator: a session of clicks only, on an annotator constructed enabled
   with an image layer, an empty points layer and the default data model *)

InitClicks ==
    LET s == Construct(EmptyPoints, TRUE, "A", TRUE)
    IN /\ dmData = s.dm
       /\ dmListeners = s.dmL
       /\ dmBlocked = s.dmB
       /\ layerData = s.ld
       /\ layerListener = s.ll
       /\ layerBlocked = s.lb
       /\ pointsLayer = s.pl
       /\ imageLayer = s.img
       /\ enabled = s.en
       /\ mouseCb = s.cb
       /\ calls = <<>>
       /\ raised = FALSE
       /\ lastOp = Op("init")
       /\ clicked = [ok |-> ClicksOnly(s), pts |-> <<>>]
       /\ SphereIdle
       /\ OthersIdle

ClickOnly == ClickAt({P1, P2, Out1, Out2}, MaxClicks)

SpecClicks == InitClicks /\ [][ClickOnly]_vars

----------------------------------------------------------------------------
(* SphereAnnotator: construction and operations *)

DEFAULT_SPHERE_RADIUS == 5

\* the rows of a points layer handed to the constructor
GivenRows == {<<>>, <<[pos |-> P1, id |-> 1, radius |-> DEFAULT_SPHERE_RADIUS]>>}

\* a point annotator constructed without layers, left alone
PointsIdle ==
    LET s == Construct(EmptyPoints, FALSE, NoLayer, FALSE)
    IN /\ dmData = s.dm
       /\ dmListeners = s.dmL
       /\ dmBlocked = s.dmB
       /\ layerData = s.ld
       /\ layerListener = s.ll
       /\ layerBlocked = s.lb
       /\ pointsLayer = s.pl
       /\ imageLayer = s.img
       /\ enabled = s.en
       /\ mouseCb = s.cb
       /\ calls = <<>>
       /\ raised = FALSE
       /\ lastOp = Op("init")
       /\ clicked = NoClicks

InitSpheres ==
    /\ PointsIdle
    /\ OthersIdle
    /\ \E image \in BOOLEAN, points \in BOOLEAN, rows \in GivenRows, en \in BOOLEAN :
          /\ ~points => rows = <<>>
          /\ SphereIs(SphereConstruct(image, points, rows, en), SOp("init"))

SCommit(s, op) ==
    /\ sLayer' = s.pl
    /\ sPoints' = s.pts
    /\ sSelected' = s.sel
    /\ sCurrent' = s.cur
    /\ sMode' = s.mode
    /\ sImage' = s.img
    /\ sEnabled' = s.en
    /\ sMouseCb' = s.cb
    /\ sListener' = s.lis
    /\ sKeys' = s.keys
    /\ sMesh' = s.mesh
    /\ sSurface' = s.surf
    /\ sLastOp' = [op EXCEPT !.placed = s.placed, !.raised = s.raised]
    /\ sIssued' = sIssued \cup Ids(s.pts)
    /\ roundTrip' = s.rt
    /\ UNCHANGED <<pvars, xvars>>

\* the id a switch to ADD mode would hand out stays within the model's ids
NextIdInRange == IF sPoints = <<>> THEN TRUE ELSE Max(Ids(sPoints)) < MaxId

\* a click reaches SphereAnnotator._mouse_callback
SphereClick ==
    \E alt \in BOOLEAN, hit \in {P1, Out1} :
        /\ Len(sPoints) < MaxSpheres
        /\ SCommit(Sphere_mouse_callback(SState, [alt |-> alt, hit |-> hit]),
                   SOp("click"))

\* the 'n' key, while the annotator has it bound
KeyN ==
    /\ "n" \in sKeys
    /\ NextIdInRange
    /\ SCommit(_enable_add_mode(SState), SOp("key_n"))

\* annotator.mode = value
AssignMode ==
    \E value \in {"ADD", "EDIT"} :
        /\ value = "ADD" => NextIdInRange
        /\ SCommit(SetMode(SState, value), [SOp("set_mode") EXCEPT !.mode = value])

\* the user selects points of the layer in the viewer
SelectPoints ==
    \E sel \in SUBSET (1..Len(sPoints)) :
        /\ sLayer
        /\ SCommit(SetSelectedData(SState, sel), SOp("select"))

\* the user deletes the selected points in the viewer
DeleteSelected ==
    /\ sLayer
    /\ sSelected # {}
    /\ SCommit(RemoveSelected(SState), SOp("delete"))

\* radii the cursor is dragged to when 'r' is pressed
DragRadii == {3, 7}

\* the 'r' key, while the annotator has it bound
KeyR ==
    \E visible \in BOOLEAN, radius \in DragRadii :
        /\ "r" \in sKeys
        /\ SCommit(_set_radius_from_mouse_event(SState, visible, radius),
                   [SOp("key_r") EXCEPT !.flag = visible, !.radius = radius])

\* spheres are created, selected and resized
NextRadius == SphereClick \/ KeyN \/ SelectPoints \/ KeyR

SpecRadius == InitSpheres /\ [][NextRadius]_vars

\* annotator.enabled = value
SphereEnable ==
    \E value \in BOOLEAN :
        SCommit(SphereSetEnabled(SState, value), [SOp("set_enabled") EXCEPT !.flag = value])

\* annotator.set_layers(image_layer)
SphereSetLayers ==
    \E image \in BOOLEAN :
        SCommit(Sphere_set_layers(SState, image), SOp("set_layers"))

NextSpheres ==
    \/ SphereClick \/ KeyN \/ AssignMode \/ SelectPoints \/ DeleteSelected
    \/ SphereEnable \/ SphereSetLayers

SpecSpheres == InitSpheres /\ [][NextSpheres]_vars

----------------------------------------------------------------------------
(* SphereAnnotator: mode changes on a layer that already holds spheres *)

\* the rows of a layer whose sphere ids are the numbers of `ids`, in the order `order`
RowsOf(order) ==
    [i \in 1..Len(order) |->
        [pos |-> P1, id |-> order[i], radius |-> DEFAULT_SPHERE_RADIUS + order[i]]]

RECURSIVE Reverse(_)
Reverse(q) == IF q = <<>> THEN <<>> ELSE Append(Reverse(Tail(q)), Head(q))

\* layers handed to the constructor: any set of ids from 1..MaxId, rows in ascending
\* or in descending order of id
GivenLayers ==
    UNION {{RowsOf(Sorted(S)), RowsOf(Reverse(Sorted(S)))} : S \in SUBSET (1..MaxId)}

InitModes ==
    /\ PointsIdle
    /\ OthersIdle
    /\ \E rows \in GivenLayers, en \in BOOLEAN, points \in BOOLEAN, image \in BOOLEAN :
          /\ ~points => rows = <<>>
          /\ SphereIs(SphereConstruct(image, points, rows, en), SOp("init"))

\* the ids in the layer are ids of a given layer: the next id is at most MaxId + 1
GivenIdsOnly == IF sPoints = <<>> THEN TRUE ELSE Max(Ids(sPoints)) <= MaxId

\* the 'n' key, while the annotator has it bound
KeyNPressed ==
    /\ "n" \in sKeys
    /\ GivenIdsOnly
    /\ SCommit(_enable_add_mode(SState), SOp("key_n"))

\* annotator.mode = value
ModeAssigned ==
    \E value \in {"ADD", "EDIT"} :
        /\ value = "ADD" => GivenIdsOnly
        /\ SCommit(SetMode(SState, value), [SOp("set_mode") EXCEPT !.mode = value])

NextModes ==
    KeyNPressed \/ ModeAssigned \/ SelectPoints \/ SphereClick \/ SphereSetLayers

SpecModes == InitModes /\ [][NextModes]_vars

----------------------------------------------------------------------------
(* PointAnnotator: writes, among them one the bound layer refuses *)

\* data_model.data = v, from outside, with a point the layers of the viewer refuse
WriteRefused ==
    /\ IF pointsLayer # NoLayer THEN layerBlocked[pointsLayer] < MaxBlocked ELSE TRUE
    /\ Commit(SetDataModelData(PState, PlanarPoint),
              [Op("write_model") EXCEPT !.flag = TRUE], NoClicks)

NextWrites == WriteDataModel \/ WriteLayer \/ WriteRefused \/ Rebind

SpecWrites == Init /\ [][NextWrites]_vars

----------------------------------------------------------------------------
(* N3dSpheres: a spheres layer converted to the data model and back *)

\* N3dSpheres.from_layer(annotator.points_layer).as_layer()
ConvertLayer ==
    /\ sLayer
    /\ SCommit([SState EXCEPT !.rt = as_layer(from_layer(sPoints))], SOp("convert"))

NextConvert == ConvertLayer \/ SelectPoints \/ SphereClick

SpecConvert == InitModes /\ [][NextConvert]_vars

----------------------------------------------------------------------------
(* Clicks mapped onto the plane in viewers of three and of four dimensions *)

\* viewer.dims.point, viewer.dims.displayed and viewer.dims.displayed_order of the
\* viewers a click is mapped in
ViewerPoints == {<<0, 0, 0>>, <<5, 6, 7, 8>>, <<0, 9, 0, 0>>}
ViewerDisplayed(point) ==
    IF Len(point) = 3 THEN {<<1, 2, 3>>}
    ELSE {<<2, 3, 4>>, <<1, 3, 4>>, <<1, 2, 4>>, <<1, 2, 3>>}
DisplayedOrders ==
    {<<1, 2, 3>>, <<1, 3, 2>>, <<2, 1, 3>>, <<2, 3, 1>>, <<3, 1, 2>>, <<3, 2, 1>>}

InitPlane ==
    /\ PointsIdle
    /\ SphereIdle
    /\ OthersIdle

\* mouse_event_to_plane_position_nd(event, viewer, plane_layer)
MapClick ==
    \E point \in ViewerPoints, order \in DisplayedOrders, hit \in {P1, P2, Out1} :
        \E displayed \in ViewerDisplayed(point) :
            /\ mapped' = PlanePositionCall(point, displayed, order, hit)
            /\ UNCHANGED <<pvars, svars, pair>>

SpecPlane == InitPlane /\ [][MapClick]_vars

----------------------------------------------------------------------------
(* Two PointAnnotators in one session. Annotator i is bound to its own points
   layer i and has an image layer; p.ref[i] is the Points instance its _data_model
   refers to, p.conns[m] the connections of update_layer_data_from_data_model to
   the data event of instance m, each named by the annotator whose method it is *)

\* the first occurrence of x taken out of seq (SignalInstance.disconnect)
RECURSIVE RemoveFirst(_, _)
RemoveFirst(seq, x) ==
    IF seq = <<>> THEN <<>>
    ELSE IF Head(seq) = x THEN Tail(seq)
    ELSE <<Head(seq)>> \o RemoveFirst(Tail(seq), x)

\* PointAnnotator._on_enable of annotator i
Pair_on_enable(p, i) ==
    LET p1 == [p EXCEPT !.cb[i] = TRUE]
    IN IF ~p1.pl[i] THEN [p1 EXCEPT !.raised = TRUE]
       ELSE [p1 EXCEPT !.lis[i] = TRUE, !.conns[p1.ref[i]] = Append(@, i)]

\* PointAnnotator._on_disable of annotator i
Pair_on_disable(p, i) ==
    LET p1 == [p EXCEPT !.cb[i] = FALSE]
    IN IF ~p1.pl[i] THEN p1
       ELSE [p1 EXCEPT !.lis[i] = FALSE, !.conns[p1.ref[i]] = RemoveFirst(@, i)]

\* N3dComponent.enabled setter of annotator i
PairSetEnabled(p, i, value) ==
    LET p1 == IF value THEN Pair_on_enable(p, i) ELSE Pair_on_disable(p, i)
    IN IF p1.raised THEN p1 ELSE [p1 EXCEPT !.en[i] = value]

\* PointAnnotator(viewer, image_layer=image, points_layer=layer_i, enabled=en) for
\* annotator i, with data_model=Points(data=[]) passed (explicit) or left out
PairConstruct(p, i, explicit, en) ==
    LET p0 == [p EXCEPT !.ref[i] = IF explicit THEN OwnModel(i) ELSE "default"]
        p1 == PairSetEnabled(p0, i, FALSE)
        p2 == [p1 EXCEPT !.pl[i] = TRUE]
        p3 == PairSetEnabled(p2, i, TRUE)
    IN PairSetEnabled(p3, i, en)

\* update_layer_data_from_data_model of annotator i
Pair_update_layer_data_from_data_model(p, i) ==
    IF ~p.pl[i] THEN p
    ELSE LET v == p.data[p.ref[i]]
             p1 == [p EXCEPT !.blocked[i] = @ + 1]
         IN IF WrongDimensions(v) THEN [p1 EXCEPT !.raised = TRUE]
            ELSE [p1 EXCEPT !.layer[i] = FixDataPoints(v), !.blocked[i] = @ - 1]

\* the data event of instance m is emitted: its connections run in the order they
\* were made, from the k-th on, until one raises
RECURSIVE PairEmit(_, _, _)
PairEmit(p, m, k) ==
    IF k > Len(p.conns[m]) \/ p.raised THEN p
    ELSE PairEmit(Pair_update_layer_data_from_data_model(p, p.conns[m][k]), m, k + 1)

\* `data = v` on instance m, its events not blocked
PairSetDataModelData(p, m, v) ==
    LET p1 == [p EXCEPT !.data[m] = v]
    IN IF ArrayEqual(p.data[m], v) THEN p1 ELSE PairEmit(p1, m, 1)

\* `layer.data = v` on the points layer of annotator i; the listener
\* update_data_model_from_layer_data writes the annotator's data model with the
\* model's events blocked
PairSetLayerData(p, i, v) ==
    IF WrongDimensions(v) THEN [p EXCEPT !.raised = TRUE]
    ELSE LET p1 == [p EXCEPT !.layer[i] = FixDataPoints(v)]
         IN IF p1.blocked[i] = 0 /\ p1.lis[i]
            THEN [p1 EXCEPT !.data[p1.ref[i]] = p1.layer[i]]
            ELSE p1

\* _mouse_callback of annotator i
Pair_mouse_callback(p, i, ev) ==
    IF ~p.pl[i] THEN p
    ELSE IF ~ev.alt THEN p
    ELSE LET new_point_nd ==
                 mouse_event_to_plane_position_nd(DimsPoint, DimsDisplayed, ev.hit)
         IN IF ~point_in_bounding_box(new_point_nd, ExtentLo, ExtentHi) THEN p
            ELSE PairSetDataModelData(
                     p, p.ref[i], Concatenate(p.layer[i], AtLeast2d(Flat(new_point_nd))))

Annotators == {1, 2}

PairOp(p, name, i) == [p EXCEPT !.op = [name |-> name, who |-> i]]

PairStart == [pair EXCEPT !.raised = FALSE]

\* both annotators are constructed, the first before the second, each with or
\* without a data_model argument and enabled or not
InitPair ==
    /\ PointsIdle
    /\ SphereIdle
    /\ mapped = NotMapped
    /\ \E explicit1 \in BOOLEAN, explicit2 \in BOOLEAN, en1 \in BOOLEAN, en2 \in BOOLEAN :
          pair = [PairOp(PairConstruct(PairConstruct(PairBlank, 1, explicit1, en1),
                                       2, explicit2, en2), "init", 0)
                     EXCEPT !.made = TRUE]

\* annotator_i.data_model.data = v, from outside
PairWriteModel ==
    \E i \in Annotators, v \in ModelWrites :
        /\ pair' = PairOp(PairSetDataModelData(PairStart, pair.ref[i], v),
                          "write_model", i)
        /\ UNCHANGED <<pvars, svars, mapped>>

\* layer_i.data = v, from outside
PairWriteLayer ==
    \E i \in Annotators, v \in LayerWrites :
        /\ pair' = PairOp(PairSetLayerData(PairStart, i, v), "write_layer", i)
        /\ UNCHANGED <<pvars, svars, mapped>>

\* the viewer hands a click to the registered _mouse_callback of annotator i
PairClick ==
    \E i \in Annotators, alt \in BOOLEAN, hit \in {P1, P2, Out1} :
        /\ pair.cb[i]
        /\ Len(pair.layer[i].rows) < MaxRows
        /\ pair' = PairOp(Pair_mouse_callback(PairStart, i, [alt |-> alt, hit |-> hit]),
                          "click", i)
        /\ UNCHANGED <<pvars, svars, mapped>>

NextPair == PairWriteModel \/ PairWriteLayer \/ PairClick

SpecPair == InitPair /\ [][NextPair]_vars

----------------------------------------------------------------------------
(* PointAnnotator: properties *)

IsWrite(op) ==
    \/ op.op = "write_model"
    \/ op.op = "write_layer" /\ op.layer = pointsLayer

\* C1: for an enabled annotator with a bound points layer, after a write to
\* data_model.data or to points_layer.data and its notification chain, the data model
\* and the points layer have the same shape and the same contents.
C1_SyncInvariant ==
    (enabled /\ pointsLayer # NoLayer /\ IsWrite(lastOp) /\ ~raised)
        => /\ Shape(dmData) = Shape(layerData[pointsLayer])
           /\ dmData.rows = layerData[pointsLayer].rows

IsRebind(op) ==
    /\ op.op \in {"set_points_layer", "set_layers"}
    /\ op.from \in Layers /\ op.layer \in Layers /\ op.from # op.layer

\* C2: right after points_layer is reassigned from layer A to another layer
\* B, any write to data_model.data makes B's data the written value and leaves A's
\* data alone, and a write to A's data leaves data_model.data alone.
C2_RebindAnyWrite ==
    [][(IsRebind(lastOp) /\ ~raised) =>
          /\ lastOp'.op = "write_model" =>
                 /\ layerData'[lastOp.layer] = FixDataPoints(dmData')
                 /\ layerData'[lastOp.from] = layerData[lastOp.from]
          /\ (lastOp'.op = "write_layer" /\ lastOp'.layer = lastOp.from) =>
                 dmData' = dmData]_vars

\* C3: from an empty data model and an empty bound layer, enabled, after the points P
\* have been delivered one at a time as valid clicks, data_model.data and
\* points_layer.data both hold exactly the rows of P in click order (and no point at
\* all while P is empty).
C3_ClicksInOrder ==
    clicked.ok =>
        IF clicked.pts = <<>>
        THEN Size(dmData) = 0 /\ Size(layerData[pointsLayer]) = 0
        ELSE /\ dmData = Rows2d(clicked.pts)
             /\ layerData[pointsLayer] = Rows2d(clicked.pts)

C3_Witness ==
    /\ clicked.ok
    /\ clicked.pts = <<P2, P1, P2>>
    /\ lastOp.op = "click"

MappedPoint(op) == mouse_event_to_plane_position_nd(DimsPoint, DimsDisplayed, op.hit)

\* C4: a click whose mapped position lies outside the image layer's bounding box
\* changes the number of rows neither of data_model.data nor of any points layer.
C4_OutsideClickKeepsLength ==
    [][(lastOp'.op = "click"
        /\ ~point_in_bounding_box(MappedPoint(lastOp'), ExtentLo, ExtentHi))
          => /\ NRows(dmData') = NRows(dmData)
             /\ \A L \in Layers : NRows(layerData'[L]) = NRows(layerData[L])]_vars

\* an Alt-click outside the box reached an annotator with both layers set
C4_Witness ==
    /\ lastOp.op = "click" /\ lastOp.alt /\ lastOp.hit = Out1
    /\ imageLayer /\ pointsLayer # NoLayer /\ enabled /\ dmListeners > 0

\* C5: _mouse_callback changes neither data_model.data, nor any layer's data, nor any
\* listener registration when the event carries no Alt modifier, or image_layer is
\* None, or points_layer is None.
C5_GatedClickIsNoOp ==
    [][(lastOp'.op = "click"
        /\ (~lastOp'.alt \/ ~imageLayer \/ pointsLayer = NoLayer))
          => UNCHANGED <<dmData, layerData, dmListeners, layerListener, mouseCb,
                         pointsLayer, imageLayer, enabled>>]_vars

\* a click inside the box, without Alt, reached an enabled annotator with both layers
C5_Witness ==
    /\ lastOp.op = "click" /\ ~lastOp.alt /\ lastOp.hit = P1
    /\ imageLayer /\ pointsLayer # NoLayer /\ enabled /\ dmListeners > 0

\* C6: Points.data is rank 2 in every reachable state.
C6_AlwaysRank2 == dmData.rank = 2

\* C7: no listener runs inside the other one: the layer write made by
\* update_layer_data_from_data_model does not invoke update_data_model_from_layer_data,
\* the model write made by update_data_model_from_layer_data does not invoke
\* update_layer_data_from_data_model, so every listener of a chain is started by the
\* external write itself and the chain ends.
C7_NoEcho ==
    \A i \in 1..Len(calls) : calls[i][2] = "external"

\* an external write to the data model ran update_layer_data_from_data_model on a
\* layer whose data event has update_data_model_from_layer_data connected
C7_Witness ==
    /\ lastOp.op = "write_model"
    /\ pointsLayer # NoLayer /\ layerListener[pointsLayer]
    /\ Len(calls) > 0 /\ calls[1][1] = "update_layer_data_from_data_model"
    /\ ~raised

\* C8: after enabled is set True and then False, no callback of the annotator is
\* registered: the click handler is not in viewer.mouse_drag_callbacks and no listener
\* is attached to the points layer's data event or to the data model's data event.
C8_DisableReversesEnable ==
    [][(lastOp.op = "set_enabled" /\ lastOp.flag /\ ~raised
        /\ lastOp'.op = "set_enabled" /\ ~lastOp'.flag)
          => /\ ~mouseCb'
             /\ dmListeners' = 0
             /\ pointsLayer' # NoLayer => ~layerListener'[pointsLayer']]_vars

----------------------------------------------------------------------------
(* SphereAnnotator: properties *)

NextSphereId(pts) == IF pts = <<>> THEN 1 ELSE Max(Ids(pts)) + 1

\* mode was set to ADD by the operation: the constructor, the 'n' key or an assignment
SetsAddMode(op) ==
    op.op \in {"init", "key_n"} \/ (op.op = "set_mode" /\ op.mode = "ADD")

\* C9: setting mode to ADD (in the constructor, by assignment or by the 'n' key)
\* makes the id given to the next created sphere the largest existing sphere_id plus
\* one, or 1 when there are no spheres, and empties the layer's selection: the layer's
\* current sphere_id is that id, also when the layer is created after the mode was
\* set, and a sphere created next, or at any later time in ADD mode with the current
\* id of that time, carries it; setting mode to EDIT changes neither the selection
\* nor that id.
C9_AddModeNextId ==
    [][/\ (sLastOp'.op = "key_n" \/ (sLastOp'.op = "set_mode" /\ sLastOp'.mode = "ADD"))
            => /\ sLayer' => sCurrent'.id = NextSphereId(sPoints)
               /\ sSelected' = {}
               /\ sMode' = "ADD"
       /\ (sLastOp'.op = "set_mode" /\ sLastOp'.mode = "EDIT")
            => /\ sMode' = "EDIT"
               /\ UNCHANGED <<sSelected, sCurrent, sPoints>>
       /\ (sLastOp'.op = "click" /\ sLastOp'.placed /\ sMode = "ADD")
            => sPoints'[Len(sPoints')].id = sCurrent.id
       /\ (SetsAddMode(sLastOp) /\ sLastOp'.op = "click" /\ sLastOp'.placed)
            => sPoints'[Len(sPoints')].id = NextSphereId(sPoints)
       /\ (sMode = "ADD" /\ sLastOp'.op = "set_layers" /\ ~sLayer /\ sLayer')
            => sCurrent'.id = NextSphereId(sPoints')]_vars

\* C10: the mode starts as ADD; it goes from ADD to EDIT only by a click that placed a
\* point and from EDIT to ADD only by the 'n' key or an assignment of mode; a click
\* that is gated out or places no point leaves the mode as it was.
C10_ModeProtocol ==
    [][/\ sLastOp.op = "init" => sMode = "ADD"
       /\ (sMode = "ADD" /\ sMode' = "EDIT" /\ sLastOp'.op # "set_mode")
            => (sLastOp'.op = "click" /\ sLastOp'.placed)
       /\ (sMode = "EDIT" /\ sMode' = "ADD")
            => sLastOp'.op \in {"key_n", "set_mode"}
       /\ (sLastOp'.op = "click" /\ ~sLastOp'.placed)
            => sMode' = sMode]_vars

\* C11: over any sequence of creations, deletions and mode changes, the sphere_id
\* given to a newly created sphere (a point placed by a click in ADD mode) differs from
\* every sphere_id a point of the layer has carried before, deleted ones included.
C11_IdsNeverReused ==
    [][(sLastOp'.op = "click" /\ sLastOp'.placed /\ sMode = "ADD")
          => sPoints'[Len(sPoints')].id \notin sIssued]_vars

\* C12: _set_radius_from_mouse_event is a no-op, without error, when image_layer or
\* points_layer is None, when the image layer is not visible or when no sphere is
\* selected; otherwise it sets the selected sphere's radius, leaves every center,
\* every sphere_id and every other sphere's radius as they were, and recomputes the
\* mesh.
C12_RadiusOnlyOfSelected ==
    [][sLastOp'.op = "key_r" =>
          IF (~sImage) \/ (~sLayer) \/ (~sLastOp'.flag) \/ sSelected = {}
          THEN /\ ~sLastOp'.raised
               /\ UNCHANGED <<sPoints, sSelected, sCurrent, sMesh, sSurface, sMode>>
          ELSE /\ ~sLastOp'.raised
               /\ Len(sPoints') = Len(sPoints)
               /\ \A i \in 1..Len(sPoints) :
                      /\ sPoints'[i].pos = sPoints[i].pos
                      /\ sPoints'[i].id = sPoints[i].id
                      /\ sPoints'[i].radius = IF i \in sSelected THEN sLastOp'.radius
                                              ELSE sPoints[i].radius
               /\ sMesh' = MeshOf(sPoints')]_vars

\* C13: whenever the sphere set is empty after a recomputation (here: the deletion of
\* the last spheres while _on_point_data_changed is connected), the stored mesh is
\* None and the surface layer holds no sphere geometry of an earlier state.
C13_EmptySetNoMesh ==
    [][(sListener /\ sLastOp'.op = "delete" /\ sPoints' = <<>>)
          => /\ sMesh' = <<>>
             /\ sSurface'.data = <<>>]_vars

\* C14: for every points layer carrying sphere_id and radius features,
\* N3dSpheres.from_layer(layer) followed by as_layer() yields a layer whose point
\* coordinates are the original centers and whose radius feature holds the original
\* radii, in the same order.
C14_LayerRoundTrip ==
    [][sLastOp'.op = "convert" =>
          /\ ~roundTrip'.raised
          /\ Len(roundTrip'.rows) = Len(sPoints)
          /\ \A i \in 1..Len(sPoints) :
                 /\ roundTrip'.rows[i].pos = sPoints[i].pos
                 /\ roundTrip'.rows[i].radius = sPoints[i].radius]_vars

----------------------------------------------------------------------------
(* PointAnnotator: listener registrations *)

C16_NothingLeftBlocked ==
    /\ ~dmBlocked
    /\ \A L \in Layers : layerBlocked[L] = 0

----------------------------------------------------------------------------
(* SphereAnnotator: identity of the spheres *)

\* C17: in every state of the annotator's points layer reached by ADD-mode clicks,
\* EDIT-mode clicks (with or without a selection), 'n' key presses, selection changes
\* and deletions, no two points carry the same sphere_id.
C17_OnePointPerId == Cardinality(Ids(sPoints)) = Len(sPoints)

\* C18: active_sphere_id is the sphere_id feature of the selected point when exactly
\* one point is selected and None when the selection is empty or holds several
\* points; _active_sphere_index is the row (0-based) that carries that id.
C18_ActiveSphereResolution ==
    sLayer =>
        LET id == active_sphere_id(SState)
            index == _active_sphere_index(SState)
        IN IF Cardinality(sSelected) = 1
           THEN LET row == CHOOSE i \in sSelected : TRUE
                IN /\ ~id.raised /\ id.val = <<sPoints[row].id>>
                   /\ ~index.raised
                   /\ index.val # <<>>
                   /\ sPoints[index.val[1] + 1].id = sPoints[row].id
           ELSE /\ ~id.raised /\ id.val = <<>>
                /\ ~index.raised /\ index.val = <<>>

\* C19: _update_spheres raises, and produces no mesh, whenever some sphere_id is
\* carried by more than one point; it never takes the first point of such a group as
\* the sphere's center.
C19_DuplicateIdFailsFast ==
    [][(sListener /\ sLastOp'.op = "click" /\ sLastOp'.placed
        /\ Cardinality(Ids(sPoints')) < Len(sPoints'))
          => /\ sLastOp'.raised
             /\ sMesh' = <<>>]_vars

----------------------------------------------------------------------------
(* SphereAnnotator: the derived mesh *)

\* the first row of pts that carries sphere_id id
FirstRowOf(pts, id) ==
    CHOOSE i \in 1..Len(pts) : pts[i].id = id /\ \A j \in 1..(i - 1) : pts[j].id # id

\* the mesh was derived from the rows the layer holds now
MeshIsCurrent ==
    /\ sLayer
    /\ \/ sLastOp.op = "init"
       \/ sListener /\ sLastOp.op = "click" /\ sLastOp.placed

\* C20: the mesh of k spheres is the concatenation of the k per-sphere vertex blocks
\* in group order (ascending sphere_id), and the faces of the i-th sphere are its local
\* face indices plus the vertex count of spheres 1..i-1, so every face of sphere i
\* refers to vertices of sphere i's block only.
C20_MeshBookkeeping ==
    /\ \A i \in 1..Len(sMesh) :
           LET local == create_sphere(sMesh[i].radius)
               before == VerticesBefore(sMesh, i)
           IN /\ sMesh[i].first_vertex = before
              /\ sMesh[i].faces.lo = local.faces.lo + before
              /\ sMesh[i].faces.hi = local.faces.hi + before
              /\ sMesh[i].first_vertex <= sMesh[i].faces.lo
              /\ sMesh[i].faces.hi < sMesh[i].first_vertex + sMesh[i].n_vertices
    /\ MeshIsCurrent =>
           LET groups == Sorted(Ids(sPoints))
           IN /\ Len(sMesh) = Len(groups)
              /\ \A i \in 1..Len(groups) :
                     LET row == sPoints[FirstRowOf(sPoints, groups[i])]
                     IN /\ sMesh[i].position = row.pos
                        /\ sMesh[i].radius = row.radius

\* the constructor derived the mesh of a layer whose rows carry the ids 3, 2, 1: three
\* blocks in the order 1, 2, 3, the second offset by one block, the third by two
C20_Witness ==
    /\ sLastOp.op = "init" /\ sLayer
    /\ Len(sPoints) = 3 /\ sPoints[1].id = 3 /\ sPoints[3].id = 1
    /\ Len(sMesh) = 3
    /\ sMesh[1].radius = sPoints[3].radius
    /\ sMesh[2].faces.lo = SphereVertexCount
    /\ sMesh[3].first_vertex = 2 * SphereVertexCount

----------------------------------------------------------------------------
(* Clicks mapped onto the plane *)

\* C21: the point mouse_event_to_plane_position_nd returns has the viewer's dims
\* point in every non-displayed dimension and the coordinates of the 3-D intersection
\* in the displayed dimensions, taken in displayed order; the viewer's dims point is
\* as it was before the call.
C21_OnlyDisplayedSlotsOverwritten ==
    mapped.done =>
        LET slots == displayed_dims(mapped.displayed, mapped.order)
        IN /\ Len(mapped.result) = Len(mapped.point)
           /\ \A k \in 1..Len(slots) : mapped.result[slots[k]] = mapped.hit[k]
           /\ \A i \in 1..Len(mapped.point) :
                  (\A k \in 1..Len(slots) : slots[k] # i)
                      => mapped.result[i] = mapped.point[i]
           /\ mapped.point_after = mapped.point

\* a click mapped in a 4-D viewer showing dimensions 1, 3, 4 in the order 4, 1, 3
C21_Witness ==
    /\ mapped.done
    /\ mapped.point = <<5, 6, 7, 8>>
    /\ mapped.displayed = <<1, 3, 4>> /\ mapped.order = <<3, 1, 2>>
    /\ mapped.hit = P2
    /\ mapped.result = <<P2[2], 6, P2[3], P2[1]>>

\* C22: a click whose view ray is parallel to the image plane is a no-op of
\* _mouse_callback: the data model's data and every points layer's data are the
\* same after it, and no error comes out of the handler
C22_ParallelClickIsNoOp ==
    [][(lastOp'.op = "click" /\ lastOp'.flag) =>
           /\ dmData' = dmData
           /\ layerData' = layerData
           /\ ~raised']_vars

\* an Alt-click with a parallel ray reached an enabled annotator that has both of
\* its layers; the intersection it computed is not finite
C22_Witness ==
    /\ lastOp.op = "click" /\ lastOp.flag /\ lastOp.alt
    /\ imageLayer /\ pointsLayer # NoLayer /\ enabled /\ mouseCb
    /\ \E i \in 1..3 : ~IsFinite(lastOp.hit[i])
    /\ ~raised

----------------------------------------------------------------------------
(* Both annotators: the enabled flag and the registrations *)

\* C23: in every state between operations, for the point annotator and for the
\* sphere annotator, enabled is True exactly when the click handler is in
\* viewer.mouse_drag_callbacks and the sync listener is attached to the data event
\* of the current points layer.
C23_EnabledAgreesWithRegistrations ==
    /\ enabled <=> (mouseCb /\ pointsLayer # NoLayer /\ layerListener[pointsLayer])
    /\ sEnabled <=> (sMouseCb /\ sLayer /\ sListener)

\* C24: the click handler, update_layer_data_from_data_model and
\* update_data_model_from_layer_data are each registered at most once, so a write
\* to data_model.data from outside causes exactly one write to points_layer.data.
\* (The click handler and the layer listener are registered or not; the data
\* model's emitter counts its connections.)
C24_NoDuplicateRegistrations ==
    dmListeners <= 1

\* C25: assigning a layer to points_layer (directly or through set_layers) leaves
\* the annotator enabled, with the click handler registered and both sync listeners
\* connected for the new layer, whatever enabled was before; assigning None changes
\* neither the enabled flag nor any registration.
C25_RebindEnables ==
    [][(lastOp'.op \in {"set_points_layer", "set_layers"}) =>
           IF lastOp'.layer # NoLayer
           THEN /\ pointsLayer' = lastOp'.layer
                /\ enabled' /\ mouseCb'
                /\ layerListener'[lastOp'.layer]
                /\ dmListeners' >= 1
                /\ ~raised'
           ELSE /\ pointsLayer' = NoLayer
                /\ UNCHANGED <<enabled, mouseCb, layerListener, dmListeners>>]_vars

\* points_layer was assigned layer B on an annotator that was disabled and bound
\* to layer A: it is enabled now, with its registrations on B
C25_Witness ==
    /\ lastOp.op = "set_points_layer" /\ lastOp.layer = "B" /\ lastOp.from = "A"
    /\ ~lastOp.flag
    /\ enabled /\ mouseCb /\ pointsLayer = "B" /\ layerListener["B"]
    /\ dmListeners = 1

----------------------------------------------------------------------------
(* PointAnnotator: two instances *)

\* C26: for two annotators constructed without a data_model argument and bound to
\* different points layers, a write to the first annotator's data_model.data, or a
\* click handled by the first annotator, leaves the data of the second annotator's
\* data model and the data of the second annotator's points layer as they were.
C26_InstancesIsolated ==
    [][(/\ pair.ref = <<"default", "default">>
        /\ pair'.op.name \in {"write_model", "click"}
        /\ pair'.op.who = 1)
          => /\ pair'.data[pair.ref[2]] = pair.data[pair.ref[2]]
             /\ pair'.layer[2] = pair.layer[2]]_vars

====
